---- MODULE Spec2Model ----
(***************************************************************************)
(* Execution subsystem of mcp-glootie: the worker pool                     *)
(* (src/src/workers/worker-pool.js, first revision in the file, lines      *)
(* 1-263), the background task store (src/src/background-tasks.js, lines   *)
(* 1-98), the executor facade (src/src/tools/executor-tool-isolated.js),   *)
(* the process_close tool (src/unnamed/part_003) and the isolation worker  *)
(* (src/unnamed/part_002, second revision, lines 195-697).                 *)
(*                                                                         *)
(* Every action is one JavaScript macrotask: a handler runs to completion  *)
(* before the next event is taken from the event loop.                     *)
(***************************************************************************)
EXTENDS Integers, Sequences, FiniteSets, TLC

\* ---------------------------------------------------------------- bounds
\* new WorkerPool(poolSize): worker-pool.js:20 (globalPool uses 4, :263)
PoolSize == 1
\* number of execute calls in a run
MaxJobs == 2
\* number of Worker objects ever constructed in a run
MaxWorkers == 2
\* the literal 100 of worker-pool.js:172, scaled down
MAX_QUEUE == 1
\* number of execute calls in a run of QueueSpec
MaxQueueJobs == 4
\* this.maxOutputSize = 100 * 1024 of background-tasks.js:7, scaled down
MaxOutputSize == 4
\* number of appendOutput calls in a run of StoreSpec
MaxChunks == 2
\* number of createTask calls in a run of StoreSpec
MaxStoreTasks == 1
\* number of tool calls in a run of ToolSpec
MaxRequests == 2
\* last tick of the clock in a run of TimeSpec
MaxTime == 2
\* number of job messages one worker thread receives in a run of ExecSpec
MaxRunnerJobs == 2
\* number of createTask calls in a run of SweepSpec
MaxSweepTasks == 3
\* number of 'output' messages one worker thread posts in a run of FlushSpec
MaxFlushes == 2
\* number of execute calls in a run of OrderSpec
MaxOrderJobs == 3
\* number of runner processes spawned in a run of SupSpec
MaxRunners == 3
\* MAX_RESTARTS = 10 of runner-supervisor.js:11, scaled down
MAX_RESTARTS == 2
\* RESTART_WINDOW_MS = 5 minutes of runner-supervisor.js:12, in ticks
RESTART_WINDOW_MS == 2
\* consecutiveFailures >= 3 of runner-supervisor.js:91
FailureLimit == 3
\* this.maxTasks = 1000 of background-tasks.js:6, scaled down
MAX_TASKS == 1
\* this.maxAge = 30 minutes of background-tasks.js:5, in ticks
MaxAge == 1

VARIABLES
  workers,         \* this.workers: sequence of {worker, isAvailable}
  queue,           \* this.queue: sequence of job ids
  activeJobs,      \* this.activeJobs: key set of the Map
  backgroundJobs,  \* this.backgroundJobs: key set of the Map
  jobCounter,      \* this.jobCounter
  shuttingDown,    \* this.shuttingDown
  jobs,            \* the job objects, by job id
  workerCounter,   \* number of Worker objects constructed so far
  threads,         \* state of the isolation worker behind each Worker object
  tasks,           \* BackgroundTaskStore.tasks
  taskCounter,     \* BackgroundTaskStore.taskCounter
  storeDown,       \* BackgroundTaskStore.cleanupTimer === null
  oldUpTo,         \* jobs 1..oldUpTo have Date.now() - startTime > maxWorkerAge
  inFlight,        \* task ids that were pending/running when shutdown began
  tempDirs,        \* job ids whose glootie_ directory is on disk
  chunkCounter,    \* number of appendOutput calls so far
  appended,        \* every chunk appendOutput was given for a live task
  delivered,       \* every chunk a getAndClearOutput call returned, in order
  lastRead,        \* the list the last getAndClearOutput call returned
  truncated,       \* task ids whose outputLog was cut by the size cap
  requests,        \* the tool calls handled and the runtime tag each one used
  now,             \* Date.now(), in ticks longer than the 1 ms tolerance
  runner,          \* one isolation worker thread: its jobs, their children
                   \* and output buffers, and the messages it posted
  runnerStore,     \* tasks of the backgroundStore of the task-runner process
  sup              \* the module state of runner-supervisor.js and its runners

storeAux == <<chunkCounter, appended, delivered, lastRead, truncated>>

auxVars == <<storeAux, requests, now, runner, runnerStore, sup>>

poolVars == <<workers, queue, activeJobs, backgroundJobs, jobCounter,
              shuttingDown, jobs, workerCounter, threads, storeDown, oldUpTo,
              inFlight, tempDirs>>

vars == <<workers, queue, activeJobs, backgroundJobs, jobCounter, shuttingDown,
          jobs, workerCounter, threads, tasks, taskCounter, storeDown,
          oldUpTo, inFlight, tempDirs, chunkCounter, appended, delivered, lastRead,
          truncated, requests, now, runner, runnerStore, sup>>

\* ------------------------------------------------------------ task store

\* startedAt: null, completedAt: null (background-tasks.js:49-50)
Null == 0 - 1

Terminal(st) == st \in {"completed", "failed"}

\* task ids drawn from the size of the map
nextTaskId_BySize(T, counter) == Cardinality(DOMAIN T) + 1

\* const taskId = ++this.taskCounter
nextTaskId(T, counter) == counter + 1

createTask(T, id) ==
  (id :> [status |-> "pending", result |-> "null",
          startedAt |-> Null, completedAt |-> Null,
          outputLog |-> << >>]) @@ T

\* startTask writing the record whether or not the id is in the map
startTask_Upsert(T, id) ==
  IF id \in DOMAIN T
    THEN [T EXCEPT ![id].startedAt = now, ![id].status = "running"]
    ELSE (id :> [status |-> "running", result |-> "null", startedAt |-> now,
                 completedAt |-> Null, outputLog |-> << >>]) @@ T

startTask(T, id) ==
  IF id \in DOMAIN T
    THEN [T EXCEPT ![id].startedAt = now, ![id].status = "running"]
    ELSE T

completeTask(T, id, result) ==
  IF id \in DOMAIN T
    THEN [T EXCEPT ![id].completedAt = now, ![id].result = result,
                   ![id].status = "completed"]
    ELSE T

failTask(T, id, message) ==
  IF id \in DOMAIN T
    THEN [T EXCEPT ![id].completedAt = now, ![id].result = message,
                   ![id].status = "failed"]
    ELSE T

deleteTask(T, id) == [t \in DOMAIN T \ {id} |-> T[t]]

storeShutdown(T) ==
  [t \in DOMAIN T |->
     IF T[t].status \in {"running", "pending"}
       THEN [T[t] EXCEPT !.completedAt = now,
                         !.result = "Process shutting down",
                         !.status = "failed"]
       ELSE T[t]]

\* the first entry of `expired` after the sort by completedAt (23); the sort
\* is stable and the Map iterates in insertion order, which is id order
Oldest(T, E) ==
  CHOOSE id \in E : \A o \in E :
    \/ T[id].completedAt < T[o].completedAt
    \/ T[id].completedAt = T[o].completedAt /\ id <= o

RECURSIVE evictExpired(_, _)
\* the loop of lines 24-27: delete, then stop once size <= maxTasks
evictExpired(T, E) ==
  IF E = {} THEN T
  ELSE LET id == Oldest(T, E)
           T1 == deleteTask(T, id)
       IN IF Cardinality(DOMAIN T1) <= MAX_TASKS THEN T1
          ELSE evictExpired(T1, E \ {id})

\* the tasks of line 15-16: terminal and completed more than maxAge ago
Aged(T) ==
  {id \in DOMAIN T : /\ Terminal(T[id].status)
                      /\ T[id].completedAt # Null
                      /\ now - T[id].completedAt > MaxAge}

\* cleanup with the overflow pass taking the oldest tasks of any status
storeCleanup_EvictAny(T) ==
  LET T1 == [id \in DOMAIN T \ Aged(T) |-> T[id]]
  IN IF Cardinality(DOMAIN T1) > MAX_TASKS
       THEN evictExpired(T1, DOMAIN T1)
       ELSE T1

\* cleanup with the overflow loop running to the end of `expired`, without
\* the break of line 26
storeCleanup_NoBreak(T) ==
  LET T1 == [id \in DOMAIN T \ Aged(T) |-> T[id]]
  IN IF Cardinality(DOMAIN T1) > MAX_TASKS
       THEN [id \in {i \in DOMAIN T1 : ~Terminal(T1[i].status)} |-> T1[id]]
       ELSE T1

\* BackgroundTaskStore.cleanup (12-29)
storeCleanup(T) ==
  LET T1 == [id \in DOMAIN T \ Aged(T) |-> T[id]]
  IN IF Cardinality(DOMAIN T1) > MAX_TASKS
       THEN evictExpired(T1, {id \in DOMAIN T1 : Terminal(T1[id].status)})
       ELSE T1

RECURSIVE SumLen(_)
\* task.outputLog.reduce((sum, e) => sum + e.d.length, 0)
SumLen(log) == IF log = << >> THEN 0 ELSE Len(Head(log).d) + SumLen(Tail(log))

RECURSIVE shiftWhileOver(_)
\* the while loop of appendOutput (78-81): total > maxOutputSize * 0.5
shiftWhileOver(log) ==
  IF Len(log) > 1 /\ SumLen(log) + SumLen(log) > MaxOutputSize
    THEN shiftWhileOver(Tail(log))
    ELSE log

\* appendOutput with unshift in place of push
appendOutput_Unshift(T, id, type, data, stamp) ==
  IF id \notin DOMAIN T \/ T[id].status \notin {"running", "pending"} THEN T
  ELSE LET pushed == <<[t |-> stamp, s |-> type, d |-> data]>> \o T[id].outputLog
       IN [T EXCEPT ![id].outputLog =
             IF SumLen(pushed) > MaxOutputSize THEN shiftWhileOver(pushed)
             ELSE pushed]

\* appendOutput without the status test of line 73
appendOutput_AnyStatus(T, id, type, data, stamp) ==
  IF id \notin DOMAIN T THEN T
  ELSE LET pushed == Append(T[id].outputLog, [t |-> stamp, s |-> type, d |-> data])
       IN [T EXCEPT ![id].outputLog =
             IF SumLen(pushed) > MaxOutputSize THEN shiftWhileOver(pushed)
             ELSE pushed]

appendOutput(T, id, type, data, stamp) ==
  IF id \notin DOMAIN T \/ T[id].status \notin {"running", "pending"} THEN T
  ELSE LET pushed == Append(T[id].outputLog, [t |-> stamp, s |-> type, d |-> data])
       IN [T EXCEPT ![id].outputLog =
             IF SumLen(pushed) > MaxOutputSize THEN shiftWhileOver(pushed)
             ELSE pushed]

\* getAndClearOutput without `task.outputLog = []`
getAndClearOutput_NoClear(T, id) ==
  IF id \notin DOMAIN T THEN [log |-> << >>, tasks |-> T]
  ELSE [log |-> T[id].outputLog, tasks |-> T]

\* getAndClearOutput: the returned list and the store after the call
getAndClearOutput(T, id) ==
  IF id \notin DOMAIN T THEN [log |-> << >>, tasks |-> T]
  ELSE [log |-> T[id].outputLog, tasks |-> [T EXCEPT ![id].outputLog = << >>]]

\* ------------------------------------------------------------- the pool

\* resolve()/reject() of the promise made in execute: only the first call
\* settles the promise
Settle(cur, outcome) == IF cur = "none" THEN outcome ELSE cur

World ==
  [workers |-> workers, queue |-> queue, activeJobs |-> activeJobs,
   backgroundJobs |-> backgroundJobs, jobs |-> jobs,
   workerCounter |-> workerCounter, threads |-> threads, tasks |-> tasks]

Commit(p) ==
  /\ workers' = p.workers
  /\ queue' = p.queue
  /\ activeJobs' = p.activeJobs
  /\ backgroundJobs' = p.backgroundJobs
  /\ jobs' = p.jobs
  /\ workerCounter' = p.workerCounter
  /\ threads' = p.threads
  /\ tasks' = p.tasks

LiveIds(ws) == {ws[i].id : i \in 1..Len(ws)}

IndexOf(ws, wid) ==
  IF wid \in LiveIds(ws) THEN CHOOSE i \in 1..Len(ws) : ws[i].id = wid ELSE 0

\* this.workers.find(w => w.isAvailable): index of the first available slot
FirstAvailable(ws) ==
  LET A == {i \in 1..Len(ws) : ws[i].isAvailable}
  IN IF A = {} THEN 0 ELSE CHOOSE i \in A : \A k \in A : i <= k

Min(S) == CHOOSE x \in S : \A y \in S : x <= y

RemoveAt(s, i) == SubSeq(s, 1, i - 1) \o SubSeq(s, i + 1, Len(s))

IdleThread == [job |-> 0, stage |-> "idle"]
DeadThread == [job |-> 0, stage |-> "dead"]

\* addWorker: ok = FALSE is `new Worker(...)` throwing
addWorker(p, ok) ==
  IF ok /\ p.workerCounter < MaxWorkers
    THEN LET wid == p.workerCounter + 1
         IN [p EXCEPT !.workerCounter = wid,
                      !.workers = Append(@, [id |-> wid, isAvailable |-> TRUE]),
                      !.threads[wid] = IdleThread]
    ELSE p

\* removeWorker without the replacement of lines 85-89
removeWorker_NoReplace(p, wid, ok) ==
  LET index == IndexOf(p.workers, wid)
  IN IF index = 0 THEN p
     ELSE [p EXCEPT !.workers = RemoveAt(@, index),
                    !.threads[wid] = DeadThread]

removeWorker(p, wid, ok) ==
  LET index == IndexOf(p.workers, wid)
  IN IF index = 0 THEN p
     ELSE LET q == [p EXCEPT !.workers = RemoveAt(@, index),
                             !.threads[wid] = DeadThread]
          IN IF ~shuttingDown /\ Len(q.workers) < PoolSize
               THEN addWorker(q, ok) ELSE q

\* the body shared by execute (180-200) and processQueue (209-233):
\* take slot i for job j, arm the foreground timer, post the job
PostJob(p, j, i, direct) ==
  LET wid == p.workers[i].id
  IN IF p.jobs[j].clonable
       THEN [p EXCEPT !.workers[i].isAvailable = FALSE,
                      !.jobs[j].timer = "armed",
                      !.jobs[j].worker = wid,
                      !.jobs[j].direct = direct,
                      !.threads[wid] = [job |-> j, stage |-> "start"]]
       ELSE \* postMessage throws: the catch branch
            [p EXCEPT !.jobs[j].timer = "cleared",
                      !.jobs[j].worker = wid,
                      !.activeJobs = @ \ {j},
                      !.jobs[j].settled = Settle(@, "rej_send")]

RECURSIVE processQueue(_)
processQueue(p) ==
  IF Len(p.queue) = 0 THEN p
  ELSE LET i == FirstAvailable(p.workers)
       IN IF i = 0 THEN p
          ELSE processQueue(PostJob([p EXCEPT !.queue = Tail(@)],
                                    Head(p.queue), i, FALSE))

\* one iteration of the loop body of healthCheck (42-56)
healthCheckJob(p, j, ok) ==
  LET job == p.jobs[j]
      q1 == removeWorker(p, job.worker, ok)
      q2 == [q1 EXCEPT !.activeJobs = @ \ {j}]
      q3 == IF job.taskId # 0
              THEN [q2 EXCEPT !.tasks = failTask(@, job.taskId,
                                "Worker timeout - killed by health check")]
              ELSE q2
  IN [q3 EXCEPT !.jobs[j].settled = Settle(@, "rej_health")]

RECURSIVE healthCheckLoop(_, _, _)
healthCheckLoop(p, S, ok) ==
  IF S = {} THEN p
  ELSE healthCheckLoop(healthCheckJob(p, Min(S), ok), S \ {Min(S)}, ok)

\* promote with the resolve call of line 186 / 217 left out
promote_NoResolve(p, j) ==
  LET tid == p.jobs[j].taskId
      q == [p EXCEPT !.activeJobs = @ \ {j},
                     !.backgroundJobs = @ \cup {j},
                     !.jobs[j].timer = "fired",
                     !.jobs[j].direct = FALSE]
  IN IF tid # 0 THEN [q EXCEPT !.tasks = startTask(@, tid)] ELSE q

\* promote freeing the slot of the job, as a kill on expiry would
promote_FreeSlot(p, j) ==
  LET tid == p.jobs[j].taskId
      index == IndexOf(p.workers, p.jobs[j].worker)
      q == [p EXCEPT !.activeJobs = @ \ {j},
                     !.backgroundJobs = @ \cup {j},
                     !.jobs[j].timer = "fired",
                     !.jobs[j].direct = FALSE,
                     !.jobs[j].settled = Settle(@, "handle")]
      q1 == IF index # 0 THEN [q EXCEPT !.workers[index].isAvailable = TRUE]
            ELSE q
  IN IF tid # 0 THEN [q1 EXCEPT !.tasks = startTask(@, tid)] ELSE q1

\* the timer callback of execute (182-187) and processQueue (213-218)
promote(p, j) ==
  LET tid == p.jobs[j].taskId
      q == [p EXCEPT !.activeJobs = @ \ {j},
                     !.backgroundJobs = @ \cup {j},
                     !.jobs[j].timer = "fired",
                     !.jobs[j].direct = FALSE,
                     !.jobs[j].settled = Settle(@, "handle")]
  IN IF tid # 0 THEN [q EXCEPT !.tasks = startTask(@, tid)] ELSE q

\* the `error` and `exitCode` fields of the terminal message for each
\* outcome of the runner: every resolve with an error text carries exit
\* code 1 (part_002:255-258, 643-646, 664-667), a child that closed carries
\* its exit code and no error (657)
MsgError(outcome) == outcome = "runner_error"
MsgExitCode(outcome) == IF outcome = "ok" THEN 0 ELSE 1

\* result.success: error ? false : exitCode === 0 (108)
resultSuccess(error, exitCode) == IF error THEN FALSE ELSE exitCode = 0

\* handleWorkerMessage (92-152) for a terminal message of job j from worker wid
handleWorkerMessage(p, wid, j, type, outcome) ==
  IF j \notin p.activeJobs \cup p.backgroundJobs THEN p
  ELSE
    LET job == p.jobs[j]
        tid == job.taskId
        wasBackgrounded == j \in p.backgroundJobs
        index == IndexOf(p.workers, wid)
        result == [outcome |-> outcome,
                   success |-> resultSuccess(MsgError(outcome),
                                            MsgExitCode(outcome)),
                   executionTimeMs |-> now - job.startTime]
        q1 == [p EXCEPT !.jobs[j].timer = IF @ = "armed" THEN "cleared" ELSE @,
                        !.jobs[j].direct = FALSE,
                        !.activeJobs = @ \ {j},
                        !.backgroundJobs = @ \ {j}]
        q2 == IF index # 0
                THEN [q1 EXCEPT !.workers[index].isAvailable = TRUE] ELSE q1
        q3 == IF tid = 0 THEN q2
              ELSE IF type = "complete"
                THEN [q2 EXCEPT !.tasks = completeTask(@, tid, result)]
                ELSE [q2 EXCEPT !.tasks = failTask(@, tid, "Worker error")]
        settle == IF wasBackgrounded THEN "bgresult"
                  ELSE IF type = "complete" THEN "result" ELSE "rej_worker"
        q4 == [q3 EXCEPT !.jobs[j].settled = Settle(@, settle)]
    IN processQueue(q4)

\* handleWorkerMessage (92-102) for an 'output' message of job j
handleOutput(p, j, streamType, data, stamp) ==
  IF j \notin p.activeJobs \cup p.backgroundJobs THEN p
  ELSE IF p.jobs[j].taskId # 0 /\ streamType # "" /\ data # ""
    THEN [p EXCEPT !.tasks = appendOutput(@, p.jobs[j].taskId, streamType,
                                          data, stamp)]
    ELSE p

InQueue(q, j) == \E k \in 1..Len(q) : q[k] = j

\* the synchronous part of shutdown (238-257): the three loops and the clears
poolShutdown(p) ==
  LET bgTasks == {p.jobs[j].taskId : j \in p.backgroundJobs} \ {0}
  IN [p EXCEPT
       !.jobs = [j \in DOMAIN p.jobs |->
          LET inMaps == j \in p.activeJobs \cup p.backgroundJobs
              touched == inMaps \/ InQueue(p.queue, j)
          IN [p.jobs[j] EXCEPT
                !.timer = IF inMaps /\ @ = "armed" THEN "cleared" ELSE @,
                !.direct = IF inMaps THEN FALSE ELSE @,
                !.settled = IF touched THEN Settle(@, "rej_poolshutdown")
                            ELSE @]],
       !.activeJobs = {},
       !.queue = << >>,
       !.backgroundJobs = {},
       !.tasks = [t \in DOMAIN p.tasks |->
          IF t \in bgTasks
            THEN [p.tasks[t] EXCEPT !.completedAt = now,
                                    !.result = "Pool shutting down",
                                    !.status = "failed"]
            ELSE p.tasks[t]],
       \* await Promise.all(terminate) (258-259)
       !.threads = [w \in DOMAIN p.threads |->
          IF w \in LiveIds(p.workers) THEN DeadThread ELSE p.threads[w]],
       !.workers = << >>]

\* execute with activeJobs.set moved in front of the three fail-fast checks
execute_SetFirst(p, j, job, down) ==
  LET p0 == [p EXCEPT !.jobs = (j :> job) @@ @, !.activeJobs = @ \cup {j}]
  IN IF down
       THEN [p0 EXCEPT !.jobs[j].settled = "rej_shutdown"]
     ELSE IF Len(p.workers) = 0
       THEN [p0 EXCEPT !.jobs[j].settled = "rej_noworkers"]
     ELSE IF Len(p.queue) > MAX_QUEUE
       THEN [p0 EXCEPT !.jobs[j].settled = "rej_overflow"]
     ELSE
       LET i == FirstAvailable(p0.workers)
       IN IF i = 0 THEN [p0 EXCEPT !.queue = Append(@, j)]
          ELSE IF job.clonable THEN PostJob(p0, j, i, TRUE)
          ELSE processQueue(PostJob(p0, j, i, TRUE))

\* execute (154-202) for the job object `job`, which gets id j
execute(p, j, job, down) ==
  LET p0 == [p EXCEPT !.jobs = (j :> job) @@ @]
  IN IF down
       THEN [p0 EXCEPT !.jobs[j].settled = "rej_shutdown"]
     ELSE IF Len(p.workers) = 0
       THEN [p0 EXCEPT !.jobs[j].settled = "rej_noworkers"]
     ELSE IF Len(p.queue) > MAX_QUEUE
       THEN [p0 EXCEPT !.jobs[j].settled = "rej_overflow"]
     ELSE
       LET p1 == [p0 EXCEPT !.activeJobs = @ \cup {j}]
           i == FirstAvailable(p1.workers)
       IN IF i = 0 THEN [p1 EXCEPT !.queue = Append(@, j)]
          ELSE IF job.clonable THEN PostJob(p1, j, i, TRUE)
          ELSE processQueue(PostJob(p1, j, i, TRUE))

\* ------------------------------------------------------------ the facade

Kinds == {"fg", "bg", "raw"}

NoResponse == [kind |-> "none", ref |-> 0]

\* the tool response of createExecutionHandler for the settlement of
\* `await executeCode` (49-71); ref is the task id its text carries
facadeResponse(settled, tid) ==
  IF settled = "handle" THEN [kind |-> "persisted", ref |-> tid]
  ELSE IF settled = "bgresult" THEN [kind |-> "completed", ref |-> tid]
  ELSE IF settled = "result" THEN [kind |-> "sync", ref |-> 0]
  ELSE [kind |-> "error", ref |-> 0]

\* the facade without its deleteTask call
facadeStore_KeepTask(T, settled, tid) == T

\* the store after the handler's continuation: deleteTask on line 61 is
\* reached only by a synchronous result
facadeStore(T, settled, tid) ==
  IF settled = "result" THEN deleteTask(T, tid) ELSE T

\* the job object of execute (158-162) and the response of the handler that
\* made the call: run_in_background responds at once (42-44)
NewJob(kind, tid, clonable) ==
  [taskId |-> tid,
   timeout |-> IF kind = "bg" THEN "long" ELSE "short",
   clonable |-> clonable,
   timer |-> "none", worker |-> 0, direct |-> FALSE,
   settled |-> "none",
   startTime |-> now,
   response |-> IF kind = "bg" THEN [kind |-> "backgrounded", ref |-> tid]
                ELSE NoResponse]

\* stdoutBuffer, stderrBuffer and outputTimer of one executeInProcess call
\* (part_002:598-600): the streams with buffered data, and the flush timer
NoOutput == [buffered |-> {}, outputTimer |-> "none"]

\* the synchronous block gracefulShutdown runs in index.js is
\* store.shutdown(); pool.shutdown() with nothing in between
Quiescent == ~(storeDown /\ ~shuttingDown)

Init ==
  /\ workers = [i \in 1..PoolSize |-> [id |-> i, isAvailable |-> TRUE]]
  /\ queue = << >>
  /\ activeJobs = {}
  /\ backgroundJobs = {}
  /\ jobCounter = 0
  /\ shuttingDown = FALSE
  /\ jobs = << >>
  /\ workerCounter = PoolSize
  /\ threads = [w \in 1..MaxWorkers |->
                 IF w <= PoolSize THEN IdleThread
                 ELSE [job |-> 0, stage |-> "none"]]
  /\ tasks = << >>
  /\ taskCounter = 0
  /\ storeDown = FALSE
  /\ oldUpTo = 0
  /\ inFlight = {}
  /\ tempDirs = {}
  /\ chunkCounter = 0
  /\ appended = << >>
  /\ delivered = << >>
  /\ lastRead = << >>
  /\ truncated = {}
  /\ requests = << >>
  /\ now = 0
  /\ runner = [jobId |-> 0, inv |-> << >>, posted |-> << >>,
               out |-> [j \in 1..MaxRunnerJobs |-> NoOutput],
               outputs |-> << >>]
  /\ runnerStore = << >>
  /\ sup = [runnerProcess |-> 0, procs |-> << >>, booted |-> FALSE,
            healthPollInterval |-> FALSE, healthy |-> FALSE,
            consecutiveFailures |-> 0, restartTimestamps |-> << >>,
            restartTimers |-> 0, stopping |-> {}]

\* createExecutionHandler up to its first await (executor-tool-isolated.js
\* 25-47) for kind fg and bg, or a direct call of pool.execute without a
\* task id for kind raw
ExecuteWithin(limit, kind, clonable) ==
  /\ Quiescent
  /\ jobCounter < limit
  /\ kind = "raw" \/ clonable
  /\ LET j == jobCounter + 1
         tid == IF kind = "raw" THEN 0 ELSE nextTaskId(tasks, taskCounter)
         T1 == IF kind = "raw" THEN tasks ELSE createTask(tasks, tid)
         T2 == IF kind = "bg" THEN startTask(T1, tid) ELSE T1
         p == execute([World EXCEPT !.tasks = T2], j,
                      NewJob(kind, tid, clonable), shuttingDown)
     IN /\ Commit(p)
        /\ jobCounter' = j
        /\ taskCounter' = IF kind = "raw" THEN taskCounter ELSE tid
  /\ UNCHANGED <<shuttingDown, storeDown, oldUpTo, inFlight>>
  /\ UNCHANGED auxVars
  /\ UNCHANGED tempDirs

Execute(kind, clonable) == ExecuteWithin(MaxJobs, kind, clonable)

\* the continuation of the foreground handler after `await executeCode`
\* settled (executor-tool-isolated.js 49-71): a synchronous result deletes
\* the task record, and the handler responds
SyncResult(j) ==
  /\ jobs[j].settled = "result"
  /\ jobs[j].timeout = "short"
  /\ jobs[j].taskId # 0

\* the handler awaits the promise of a foreground call that has not been
\* answered yet
FacadeAwaits(j) ==
  /\ jobs[j].taskId # 0
  /\ jobs[j].timeout = "short"
  /\ jobs[j].response = NoResponse

FacadeContinue(j) ==
  /\ Quiescent
  /\ j \in DOMAIN jobs
  /\ FacadeAwaits(j)
  /\ jobs[j].settled # "none"
  /\ tasks' = facadeStore(tasks, jobs[j].settled, jobs[j].taskId)
  /\ jobs' = [jobs EXCEPT ![j].response =
                 facadeResponse(jobs[j].settled, jobs[j].taskId)]
  /\ UNCHANGED <<workers, queue, activeJobs, backgroundJobs, jobCounter,
                 shuttingDown, workerCounter, threads, taskCounter,
                 storeDown, oldUpTo, inFlight>>
  /\ UNCHANGED auxVars
  /\ UNCHANGED tempDirs

\* the process_close tool
ProcessClose(t) ==
  /\ Quiescent
  /\ t \in DOMAIN tasks
  /\ tasks' = deleteTask(tasks, t)
  /\ UNCHANGED <<workers, queue, activeJobs, backgroundJobs, jobCounter,
                 shuttingDown, jobs, workerCounter, threads, taskCounter,
                 storeDown, oldUpTo, inFlight>>
  /\ UNCHANGED auxVars
  /\ UNCHANGED tempDirs

\* the foreground timer of job j fires.  A 24-hour timer (run_in_background)
\* is still armed when it is due only if the health check removed the job 23
\* hours earlier, and the 5-minute sweep has by then evicted its failed task
\* (maxAge 30 minutes, background-tasks.js 5-8).
TimerFire(j) ==
  /\ Quiescent
  /\ j \in DOMAIN jobs
  /\ jobs[j].timer = "armed"
  /\ jobs[j].timeout = "long" =>
       /\ j <= oldUpTo
       /\ j \notin activeJobs
       /\ jobs[j].taskId \notin DOMAIN tasks
  /\ Commit(promote(World, j))
  /\ UNCHANGED <<jobCounter, shuttingDown, taskCounter, storeDown, oldUpTo,
                 inFlight>>
  /\ UNCHANGED auxVars
  /\ UNCHANGED tempDirs

\* ------------------------------------------------- the isolation worker
\* stage of the worker thread:
\*   start   the job message was received (part_002:674); the runtime of the
\*           job shows in the first step taken from here.  go, rust, c and
\*           cpp resolve from here at once: the branch falls through to
\*           child.stdout of an undefined child (part_002:620) and the
\*           outer catch resolves with the TypeError (662-667)
\*   java    runtime java: javac or java runs inside the inner promise
\*   killed  the deadline timer set killed/execKilled; the child is dying
\*   lost    every child has exited and executeInProcess never resolved

\* cleanupTemp (part_002:221-226) as called for job j: rmSync of its
\* directory, if it has one
cleanupTemp(D, j) == D \ {j}

\* the jobs on the workers this step terminates
TornDown ==
  {threads[w].job : w \in LiveIds(workers) \ LiveIds(workers')} \ {0}

\* worker.terminate(): parentPort.on('close', killActiveChild)
\* (part_002:236) removes the directory if the terminated thread still gets
\* to run the listener
teardown(D, closeRuns) == IF closeRuns THEN D \ TornDown ELSE D

Outcomes == {"ok", "nonzero", "runner_error"}
MsgTypes == {"complete", "error"}

Running(w) == threads[w].stage = "start"

\* executeInProcess resolves (unsupported runtime, temp-file failure, child
\* 'close' or 'error' with killed = false), the message handler posts the
\* terminal message (part_002:678-693) and the pool handles it
WorkerMessage(w, type, outcome) ==
  /\ Quiescent
  /\ w \in LiveIds(workers)
  /\ Running(w)
  /\ LET p == [World EXCEPT !.threads[w] = IdleThread]
     IN Commit(handleWorkerMessage(p, w, threads[w].job, type, outcome))
  /\ UNCHANGED <<jobCounter, shuttingDown, taskCounter, storeDown, oldUpTo,
                 inFlight>>
  /\ UNCHANGED auxVars
  /\ tempDirs' = cleanupTemp(tempDirs, threads[w].job)

\* bash, cmd, go, rust, c, cpp, java, deno: mkdtempSync makes the job's
\* directory when the job message is handled (part_002:263, 284, 436, 560)
MakeTemp(w) ==
  /\ Quiescent
  /\ w \in LiveIds(workers)
  /\ threads[w].stage = "start"
  /\ threads[w].job \notin tempDirs
  /\ tempDirs' = tempDirs \cup {threads[w].job}
  /\ UNCHANGED <<workers, queue, activeJobs, backgroundJobs, jobCounter,
                 shuttingDown, jobs, workerCounter, threads, tasks,
                 taskCounter, storeDown, oldUpTo, inFlight>>
  /\ UNCHANGED auxVars

\* java: the executor returns a second promise and spawns javac
\* (part_002:434-453)
JavaSpawn(w) ==
  /\ Quiescent
  /\ w \in LiveIds(workers)
  /\ threads[w].stage = "start"
  /\ threads' = [threads EXCEPT ![w].stage = "java"]
  /\ UNCHANGED <<workers, queue, activeJobs, backgroundJobs, jobCounter,
                 shuttingDown, jobs, workerCounter, tasks, taskCounter,
                 storeDown, oldUpTo, inFlight>>
  /\ UNCHANGED auxVars
  /\ UNCHANGED tempDirs

\* java: javac fails, or java closes or errors: compileResolve(...) settles
\* the inner promise only (part_002:463-549)
JavaDone(w) ==
  /\ Quiescent
  /\ w \in LiveIds(workers)
  /\ threads[w].stage = "java"
  /\ threads' = [threads EXCEPT ![w].stage = "lost"]
  /\ UNCHANGED <<workers, queue, activeJobs, backgroundJobs, jobCounter,
                 shuttingDown, jobs, workerCounter, tasks, taskCounter,
                 storeDown, oldUpTo, inFlight>>
  /\ UNCHANGED auxVars
  /\ tempDirs' = cleanupTemp(tempDirs, threads[w].job)

\* the runner deadline (workerTimeout = 24 h, worker-pool.js:157) expires:
\* timeoutHandle sets killed and signals the child (part_002:582-596).  A job still in activeJobs was removed by the health
\* check 23 hours earlier, so the job is a promoted one.
RunnerDeadline(w) ==
  /\ Quiescent
  /\ w \in LiveIds(workers)
  /\ Running(w)
  /\ threads[w].job \in backgroundJobs
  /\ threads[w].job <= oldUpTo
  /\ threads' = [threads EXCEPT ![w].stage = "killed"]
  /\ UNCHANGED <<workers, queue, activeJobs, backgroundJobs, jobCounter,
                 shuttingDown, jobs, workerCounter, tasks, taskCounter,
                 storeDown, oldUpTo, inFlight>>
  /\ UNCHANGED auxVars
  /\ UNCHANGED tempDirs

\* 'close' of a child whose killed flag is set: cleanup() only
\* (part_002:652-661)
ChildExit(w) ==
  /\ Quiescent
  /\ w \in LiveIds(workers)
  /\ threads[w].stage = "killed"
  /\ threads' = [threads EXCEPT ![w].stage = "lost"]
  /\ UNCHANGED <<workers, queue, activeJobs, backgroundJobs, jobCounter,
                 shuttingDown, jobs, workerCounter, tasks, taskCounter,
                 storeDown, oldUpTo, inFlight>>
  /\ UNCHANGED auxVars
  /\ tempDirs' = cleanupTemp(tempDirs, threads[w].job)

\* worker.on('error') / worker.on('exit') (worker-pool.js:65-73)
WorkerCrash(w, ok) ==
  /\ Quiescent
  /\ w \in LiveIds(workers)
  /\ Commit(removeWorker(World, w, ok))
  /\ UNCHANGED <<jobCounter, shuttingDown, taskCounter, storeDown, oldUpTo,
                 inFlight>>
  /\ UNCHANGED auxVars
  /\ \E closeRuns \in BOOLEAN : tempDirs' = teardown(tempDirs, closeRuns)

\* ------------------------------------------------------ time and health

\* a foreground timer of 15 s or 30 s armed by execute itself fires long
\* before the job is older than maxWorkerAge (1 h)
FreshTimer(j) ==
  /\ jobs[j].timer = "armed"
  /\ jobs[j].timeout = "short"
  /\ jobs[j].direct

\* the clock passes startTime + maxWorkerAge of job k (start times increase
\* with the job id)
Elapse(k) ==
  /\ ~shuttingDown /\ ~storeDown
  /\ k \in (oldUpTo + 1)..jobCounter
  /\ \A i \in 1..k : ~FreshTimer(i)
  /\ oldUpTo' = k
  /\ UNCHANGED <<workers, queue, activeJobs, backgroundJobs, jobCounter,
                 shuttingDown, jobs, workerCounter, threads, tasks,
                 taskCounter, storeDown, inFlight>>
  /\ UNCHANGED auxVars
  /\ UNCHANGED tempDirs

\* healthCheck (39-58), run by the 30 s interval until shutdown clears it
HealthCheck(ok) ==
  /\ Quiescent
  /\ ~shuttingDown
  /\ Commit(healthCheckLoop(World, {j \in activeJobs : j <= oldUpTo}, ok))
  /\ UNCHANGED <<jobCounter, shuttingDown, taskCounter, storeDown, oldUpTo,
                 inFlight>>
  /\ UNCHANGED auxVars
  /\ \E closeRuns \in BOOLEAN : tempDirs' = teardown(tempDirs, closeRuns)

\* ------------------------------------------------------------- shutdown

LiveTasks(T) == {t \in DOMAIN T : ~Terminal(T[t].status)}

\* BackgroundTaskStore.shutdown (31-43): first in index.js gracefulShutdown,
\* second (after `await pool.shutdown()`) in task-runner.js
StoreShutdown ==
  /\ ~storeDown
  /\ storeDown' = TRUE
  /\ tasks' = storeShutdown(tasks)
  /\ inFlight' = IF shuttingDown THEN inFlight ELSE LiveTasks(tasks)
  /\ UNCHANGED <<workers, queue, activeJobs, backgroundJobs, jobCounter,
                 shuttingDown, jobs, workerCounter, threads, taskCounter,
                 oldUpTo>>
  /\ UNCHANGED auxVars
  /\ UNCHANGED tempDirs

\* WorkerPool.shutdown (237-260)
PoolShutdown ==
  /\ ~shuttingDown
  /\ shuttingDown' = TRUE
  /\ Commit(poolShutdown(World))
  /\ inFlight' = IF storeDown THEN inFlight ELSE LiveTasks(tasks)
  /\ UNCHANGED <<jobCounter, taskCounter, storeDown, oldUpTo>>
  /\ UNCHANGED auxVars
  /\ \E closeRuns \in BOOLEAN : tempDirs' = teardown(tempDirs, closeRuns)

Next ==
  \/ \E kind \in Kinds, clonable \in BOOLEAN : Execute(kind, clonable)
  \/ \E j \in DOMAIN jobs : FacadeContinue(j)
  \/ \E t \in DOMAIN tasks : ProcessClose(t)
  \/ \E j \in DOMAIN jobs : TimerFire(j)
  \/ \E w \in 1..MaxWorkers, type \in MsgTypes, outcome \in Outcomes :
       WorkerMessage(w, type, outcome)
  \/ \E w \in 1..MaxWorkers : JavaSpawn(w)
  \/ \E w \in 1..MaxWorkers : JavaDone(w)
  \/ \E w \in 1..MaxWorkers : RunnerDeadline(w)
  \/ \E w \in 1..MaxWorkers : ChildExit(w)
  \/ \E w \in 1..MaxWorkers, ok \in BOOLEAN : WorkerCrash(w, ok)
  \/ \E k \in DOMAIN jobs : Elapse(k)
  \/ \E ok \in BOOLEAN : HealthCheck(ok)
  \/ StoreShutdown
  \/ PoolShutdown

Spec == Init /\ [][Next]_vars

\* the pool under load only: foreground requests, their timers and their
\* completions
QueueExecute == ExecuteWithin(MaxQueueJobs, "fg", TRUE)

NextQ ==
  \/ QueueExecute
  \/ \E j \in DOMAIN jobs : TimerFire(j)
  \/ \E j \in DOMAIN jobs : FacadeContinue(j)
  \/ \E w \in 1..MaxWorkers, outcome \in Outcomes :
       WorkerMessage(w, "complete", outcome)

QueueSpec == Init /\ [][NextQ]_vars

\* the pool with a crashing worker: foreground requests, their timers, their
\* completions, and worker threads that exit
OrderExecute == ExecuteWithin(MaxOrderJobs, "fg", TRUE)

NextOrder ==
  \/ OrderExecute
  \/ \E j \in DOMAIN jobs : TimerFire(j)
  \/ \E w \in 1..MaxWorkers : WorkerMessage(w, "complete", "ok")
  \/ \E w \in 1..MaxWorkers : WorkerCrash(w, TRUE)

OrderSpec == Init /\ [][NextOrder]_vars

\* ------------------------------------------------ the task store by itself
\* The store under direct calls of its methods, in any order: the pool calls
\* createTask/startTask/completeTask/failTask/appendOutput, the readers
\* (ReadResource in index.js, the RPC handler of task-runner.js) call
\* getAndClearOutput, process_close calls deleteTask.

\* the `data` strings of worker 'output' messages
Data == {"a", "ccc", "ffffff"}
Streams == {"stdout", "stderr"}

CreateTask ==
  /\ taskCounter < MaxStoreTasks
  /\ taskCounter' = nextTaskId(tasks, taskCounter)
  /\ tasks' = createTask(tasks, nextTaskId(tasks, taskCounter))
  /\ UNCHANGED <<poolVars, auxVars>>

StartTask(id) ==
  /\ tasks' = startTask(tasks, id)
  /\ UNCHANGED <<poolVars, taskCounter, auxVars>>

CompleteTask(id, result) ==
  /\ tasks' = completeTask(tasks, id, [outcome |-> result,
                                        executionTimeMs |-> 0])
  /\ UNCHANGED <<poolVars, taskCounter, auxVars>>

FailTask(id) ==
  /\ tasks' = failTask(tasks, id, "Worker error")
  /\ UNCHANGED <<poolVars, taskCounter, auxVars>>

DeleteTask(id) ==
  /\ tasks' = deleteTask(tasks, id)
  /\ UNCHANGED <<poolVars, taskCounter, auxVars>>

\* the timestamp t of a chunk is Date.now(); the arrival number stands for it
AppendOutput(id, type, data) ==
  /\ chunkCounter < MaxChunks
  /\ chunkCounter' = chunkCounter + 1
  /\ LET chunk == [t |-> chunkCounter + 1, s |-> type, d |-> data]
         live == id \in DOMAIN tasks /\ ~Terminal(tasks[id].status)
         T == appendOutput(tasks, id, type, data, chunkCounter + 1)
     IN /\ tasks' = T
        /\ appended' = IF live THEN Append(appended, [task |-> id, chunk |-> chunk])
                       ELSE appended
        /\ truncated' =
             IF live /\ SumLen(tasks[id].outputLog) + Len(data) > MaxOutputSize
               THEN truncated \cup {id} ELSE truncated
  /\ UNCHANGED <<poolVars, taskCounter, delivered, lastRead, requests, now,
                 runner, runnerStore, sup>>

GetAndClearOutput(id) ==
  /\ LET r == getAndClearOutput(tasks, id)
     IN /\ tasks' = r.tasks
        /\ lastRead' = r.log
        /\ delivered' = delivered \o [k \in 1..Len(r.log) |->
                                         [task |-> id, chunk |-> r.log[k]]]
  /\ UNCHANGED <<poolVars, taskCounter, chunkCounter, appended, truncated,
                 requests, now, runner, runnerStore, sup>>

NextStore ==
  \/ CreateTask
  \/ \E id \in 1..MaxStoreTasks : StartTask(id)
  \/ \E id \in 1..MaxStoreTasks : CompleteTask(id, "ok")
  \/ \E id \in 1..MaxStoreTasks : FailTask(id)
  \/ \E id \in 1..MaxStoreTasks : DeleteTask(id)
  \/ \E id \in 1..MaxStoreTasks, type \in Streams, data \in Data :
       AppendOutput(id, type, data)
  \/ \E id \in 1..MaxStoreTasks : GetAndClearOutput(id)

StoreSpec == Init /\ [][NextStore]_vars

\* ------------------------------------------------- the tools of the facade
\* executionTools (executor-tool-isolated.js 75-125): win32 registers the
\* execute tool only, the other platforms register execute and bash

Platforms == {"win32", "linux"}

ToolNames(platform) ==
  IF platform = "win32" THEN {"execute"} ELSE {"execute", "bash"}

\* the language argument: a value of the tool's enum, or left out
Languages(tool) ==
  IF tool = "bash" THEN {"undefined", "bash", "sh", "zsh"}
  ELSE {"undefined", "nodejs", "typescript", "deno", "go", "rust", "python",
        "c", "cpp", "auto"}

\* lines 26, 34 and 35 of createExecutionHandler
runtimeTag(isBash, language) ==
  LET given == IF language = "undefined"
                 THEN (IF isBash THEN "bash" ELSE "auto")
                 ELSE language
      runtime == IF given = "" THEN "nodejs" ELSE given
  IN IF ~isBash /\ runtime \in {"typescript", "auto"} THEN "nodejs"
     ELSE runtime

ToolCall(platform, tool, language) ==
  /\ Len(requests) < MaxRequests
  /\ tool \in ToolNames(platform)
  /\ language \in Languages(tool)
  /\ requests' = Append(requests,
                        [platform |-> platform, tool |-> tool,
                         language |-> language,
                         runtime |-> runtimeTag(tool = "bash", language)])
  /\ UNCHANGED <<poolVars, tasks, taskCounter, storeAux, now, runner,
                 runnerStore, sup>>

NextTool ==
  \E platform \in Platforms, tool \in {"execute", "bash"},
     language \in Languages("execute") \cup Languages("bash") :
    ToolCall(platform, tool, language)

ToolSpec == Init /\ [][NextTool]_vars

\* --------------------------------------------------------- the pool in time
\* One tick is longer than the 1 ms tolerance and not longer than the
\* shortest foreground deadline (15 s): a timer fires at least one tick
\* after Date.now() was stored in job.startTime.

Tick ==
  /\ now < MaxTime
  /\ now' = now + 1
  /\ UNCHANGED <<poolVars, tasks, taskCounter, storeAux, requests, runner,
                 runnerStore, sup>>

TimerDue(j) ==
  /\ j \in DOMAIN jobs
  /\ now > jobs[j].startTime
  /\ TimerFire(j)

NextTime ==
  \/ Tick
  \/ \E kind \in {"fg", "bg"} : Execute(kind, TRUE)
  \/ \E j \in DOMAIN jobs : TimerDue(j)
  \/ \E w \in 1..MaxWorkers, outcome \in Outcomes :
       WorkerMessage(w, "complete", outcome)
  \/ \E j \in DOMAIN jobs : FacadeContinue(j)

TimeSpec == Init /\ [][NextTime]_vars

\* ------------------------------------------------ the pool with output
\* flushOutput (part_002:602-614) posts the buffered stdout or stderr of the
\* running child and the pool handles the message; the arrival number
\* stands for the timestamp of the chunk
WorkerOutput(w, streamType, data) ==
  /\ Quiescent
  /\ w \in LiveIds(workers)
  /\ Running(w)
  /\ chunkCounter < MaxChunks
  /\ chunkCounter' = chunkCounter + 1
  /\ Commit(handleOutput(World, threads[w].job, streamType, data,
                         chunkCounter + 1))
  /\ UNCHANGED <<jobCounter, shuttingDown, taskCounter, storeDown, oldUpTo,
                 inFlight, tempDirs>>
  /\ UNCHANGED <<appended, delivered, lastRead, truncated, requests, now,
                 runner, runnerStore, sup>>

\* foreground and run_in_background calls, their timers, the output and
\* the terminal message of their children, process_close and the health
\* check
NextStream ==
  \/ \E kind \in {"fg", "bg"} : Execute(kind, TRUE)
  \/ \E j \in DOMAIN jobs : FacadeContinue(j)
  \/ \E t \in DOMAIN tasks : ProcessClose(t)
  \/ \E j \in DOMAIN jobs : TimerFire(j)
  \/ \E w \in 1..MaxWorkers, streamType \in Streams :
       WorkerOutput(w, streamType, "a")
  \/ \E w \in 1..MaxWorkers, type \in MsgTypes, outcome \in Outcomes :
       WorkerMessage(w, type, outcome)
  \/ \E k \in DOMAIN jobs : Elapse(k)
  \/ \E ok \in BOOLEAN : HealthCheck(ok)

StreamSpec == Init /\ [][NextStream]_vars

\* the pool with the runner's temporary directories
NextRunner ==
  \/ Next
  \/ \E w \in 1..MaxWorkers : MakeTemp(w)

RunnerSpec == Init /\ [][NextRunner]_vars

\* timers fire, the health-check interval fires, posted messages are
\* delivered, promise continuations run and a signalled child exits
FairSpec ==
  /\ Spec
  /\ WF_vars(\E j \in DOMAIN jobs : TimerFire(j))
  /\ WF_vars(\E j \in DOMAIN jobs : FacadeContinue(j))
  /\ WF_vars(\E w \in 1..MaxWorkers, type \in MsgTypes, outcome \in Outcomes :
               WorkerMessage(w, type, outcome))
  /\ WF_vars(\E w \in 1..MaxWorkers : JavaDone(w))
  /\ WF_vars(\E w \in 1..MaxWorkers : ChildExit(w))
  /\ WF_vars(\E ok \in BOOLEAN : HealthCheck(ok))

\* ------------------------------------------- the pool behind the RPC runner
\* The RPC transport: executeCode of execute-code-isolated.js forwards to
\* rpc-client.js (part_004:127-144, part_002:740-743), which posts the call
\* to the task-runner process; its 'execute' method calls pool.execute with
\* the backgroundTaskId of the caller (task-runner.js:56-60).  The facade and
\* process_status keep using the backgroundStore singleton of their own
\* process (executor-tool-isolated.js:2, part_003:2), which is `tasks` here;
\* the pool of the task-runner process uses the singleton that
\* worker-pool.js imports there (worker-pool.js:7), which is runnerStore.

\* the pool of the task-runner process and the store it imports
RemoteWorld == [World EXCEPT !.tasks = runnerStore]

CommitRemote(p) ==
  /\ workers' = p.workers
  /\ queue' = p.queue
  /\ activeJobs' = p.activeJobs
  /\ backgroundJobs' = p.backgroundJobs
  /\ jobs' = p.jobs
  /\ workerCounter' = p.workerCounter
  /\ threads' = p.threads
  /\ runnerStore' = p.tasks

rpcFrame == <<shuttingDown, storeDown, oldUpTo, inFlight, tempDirs, storeAux,
              requests, now, runner, sup>>

\* createExecutionHandler up to its first await, with the call of
\* pool.execute made by handleRPC in the task-runner process
RpcExecute(kind) ==
  /\ jobCounter < MaxJobs
  /\ LET j == jobCounter + 1
         tid == nextTaskId(tasks, taskCounter)
         T1 == createTask(tasks, tid)
         p == execute(RemoteWorld, j, NewJob(kind, tid, TRUE), shuttingDown)
     IN /\ CommitRemote(p)
        /\ tasks' = IF kind = "bg" THEN startTask(T1, tid) ELSE T1
        /\ jobCounter' = j
        /\ taskCounter' = tid
  /\ UNCHANGED rpcFrame

\* the foreground timer of job j fires in the task-runner process
RpcTimerFire(j) ==
  /\ j \in DOMAIN jobs
  /\ jobs[j].timer = "armed"
  /\ jobs[j].timeout = "short"
  /\ CommitRemote(promote(RemoteWorld, j))
  /\ UNCHANGED <<tasks, taskCounter, jobCounter>>
  /\ UNCHANGED rpcFrame

\* the terminal message of the job on worker w, handled in the task-runner
\* process
RpcWorkerMessage(w, type, outcome) ==
  /\ w \in LiveIds(workers)
  /\ Running(w)
  /\ LET p == [RemoteWorld EXCEPT !.threads[w] = IdleThread]
     IN CommitRemote(handleWorkerMessage(p, w, threads[w].job, type, outcome))
  /\ UNCHANGED <<tasks, taskCounter, jobCounter>>
  /\ UNCHANGED rpcFrame

NextRpc ==
  \/ \E kind \in {"fg", "bg"} : RpcExecute(kind)
  \/ \E j \in DOMAIN jobs : RpcTimerFire(j)
  \/ \E w \in 1..MaxWorkers, type \in MsgTypes, outcome \in Outcomes :
       RpcWorkerMessage(w, type, outcome)
  \/ \E j \in DOMAIN jobs : FacadeContinue(j)
  \/ \E t \in DOMAIN tasks : ProcessClose(t)

RpcSpec == Init /\ [][NextRpc]_vars

\* ------------------------------------------------- the runner supervisor
\* runner-supervisor.js: startRunner spawns the task-runner process and
\* waits for it to answer /health, the health poll restarts a runner that
\* failed three checks in a row, and the 'exit' handler of every runner
\* schedules a restart too.  sup.procs holds the processes spawned so far:
\* `state` of the process and `loop` of the startRunner call that spawned
\* it; sup.restartTimers counts the pending setTimeout(startRunner) timers;
\* sup.stopping holds the processes whose exit a stopRunner call awaits.

\* withinWindow (40-44): the filtered list, which the call also stores
withinWindow(stamps) ==
  SelectSeq(stamps, LAMBDA t : now - t < RESTART_WINDOW_MS)

\* the synchronous part of startRunner (46-66)
startRunner(r) ==
  [r EXCEPT !.procs = Append(@, [state |-> "running", loop |-> "waiting"]),
            !.runnerProcess = Len(r.procs) + 1]

\* the 'exit' handler of a runner (54-65)
onExit(r) ==
  LET kept == withinWindow(r.restartTimestamps)
      r1 == [r EXCEPT !.healthy = FALSE, !.runnerProcess = 0]
  IN IF Len(kept) >= MAX_RESTARTS
       THEN [r1 EXCEPT !.restartTimestamps = kept]
       ELSE [r1 EXCEPT !.restartTimestamps = Append(kept, now),
                       !.restartTimers = @ + 1]

\* the callback of the health poll (83-106) up to `await stopRunner()`, with
\* the synchronous part of stopRunner (109-117); when runnerProcess is null
\* stopRunner returns at once and line 103 arms the restart timer
pollTick(r, ok) ==
  IF ok THEN [r EXCEPT !.healthy = TRUE, !.consecutiveFailures = 0]
  ELSE LET r1 == [r EXCEPT !.consecutiveFailures = @ + 1]
           kept == withinWindow(r.restartTimestamps)
       IN IF r1.consecutiveFailures < FailureLimit THEN r1
          ELSE IF Len(kept) >= MAX_RESTARTS
            THEN [r1 EXCEPT !.healthy = FALSE, !.restartTimestamps = kept,
                            !.healthPollInterval = FALSE]
          ELSE LET r2 == [r1 EXCEPT !.healthy = FALSE,
                                    !.restartTimestamps = Append(kept, now),
                                    !.healthPollInterval = FALSE]
               IN IF r.runnerProcess = 0
                    THEN [r2 EXCEPT !.restartTimers = @ + 1]
                    ELSE [r2 EXCEPT !.stopping = @ \cup {r.runnerProcess}]

\* `await stopRunner()` resumes when the process it signalled exits, and
\* line 103 arms the restart timer
afterStop(r, pid) ==
  IF pid \in r.stopping
    THEN [r EXCEPT !.stopping = @ \ {pid}, !.restartTimers = @ + 1]
    ELSE r

Alive(r) == {pid \in 1..Len(r.procs) : r.procs[pid].state = "running"}

supFrame == <<poolVars, tasks, taskCounter, storeAux, requests, now, runner,
              runnerStore>>

\* the first startRunner call, made when the server starts
Boot ==
  /\ ~sup.booted
  /\ sup' = startRunner([sup EXCEPT !.booted = TRUE])
  /\ UNCHANGED supFrame

\* a restart timer fires (64, 103)
RestartTimer ==
  /\ sup.restartTimers > 0
  /\ Len(sup.procs) < MaxRunners
  /\ sup' = startRunner([sup EXCEPT !.restartTimers = @ - 1])
  /\ UNCHANGED supFrame

\* the wait loop of the startRunner call that spawned pid sees the runner
\* answer /health (67-76) and starts the health poll
LoopHealthy(pid) ==
  /\ pid \in Alive(sup)
  /\ sup.procs[pid].loop = "waiting"
  /\ sup' = [sup EXCEPT !.procs[pid].loop = "done",
                        !.healthy = TRUE,
                        !.consecutiveFailures = 0,
                        !.healthPollInterval = TRUE]
  /\ UNCHANGED supFrame

\* the wait loop gives up after 10 s (78)
LoopTimeout(pid) ==
  /\ pid \in 1..Len(sup.procs)
  /\ sup.procs[pid].loop = "waiting"
  /\ sup' = [sup EXCEPT !.procs[pid].loop = "done"]
  /\ UNCHANGED supFrame

\* the 5 s health poll fires; the check can succeed only while a runner is
\* alive, and fails when the runner hangs or is gone
PollTick(ok) ==
  /\ sup.healthPollInterval
  /\ ok => Alive(sup) # {}
  /\ sup' = pollTick(sup, ok)
  /\ UNCHANGED supFrame

\* runner pid exits: by itself, or after the SIGTERM or SIGKILL of
\* stopRunner
RunnerExit(pid) ==
  /\ pid \in Alive(sup)
  /\ sup' = afterStop(onExit([sup EXCEPT !.procs[pid].state = "exited"]), pid)
  /\ UNCHANGED supFrame

NextSup ==
  \/ Boot
  \/ RestartTimer
  \/ \E pid \in 1..MaxRunners : LoopHealthy(pid)
  \/ \E pid \in 1..MaxRunners : LoopTimeout(pid)
  \/ \E ok \in BOOLEAN : PollTick(ok)
  \/ \E pid \in 1..MaxRunners : RunnerExit(pid)
  \/ Tick

SupSpec == Init /\ [][NextSup]_vars

\* ------------------------------------------- the task store and its sweep
\* The store with the 5-minute cleanup interval (background-tasks.js:8) and
\* the clock: tasks are created, started and ended, time passes, the sweep
\* runs.

SweepCreate ==
  /\ taskCounter < MaxSweepTasks
  /\ taskCounter' = nextTaskId(tasks, taskCounter)
  /\ tasks' = createTask(tasks, nextTaskId(tasks, taskCounter))
  /\ UNCHANGED <<poolVars, auxVars>>

Cleanup ==
  /\ ~storeDown
  /\ tasks' = storeCleanup(tasks)
  /\ UNCHANGED <<poolVars, taskCounter, auxVars>>

NextSweep ==
  \/ SweepCreate
  \/ \E id \in 1..MaxSweepTasks : StartTask(id)
  \/ \E id \in 1..MaxSweepTasks : CompleteTask(id, "ok")
  \/ \E id \in 1..MaxSweepTasks : FailTask(id)
  \/ Tick
  \/ Cleanup

SweepSpec == Init /\ [][NextSweep]_vars

\* ------------------------------------------- one worker thread in detail
\* executeInProcess (part_002:238-670) and the message handler (674-695) of
\* one isolation worker, job message after job message.  The pool posts a job
\* to a slot only when the slot is available, which after the first job is
\* when the terminal message of the previous one was handled
\* (worker-pool.js:118, 178).  Each invocation keeps its own closure
\* variables, so the record of an earlier job stays live while its children
\* or timers do.

\* the keys of CONFIGS (201-213)
CONFIGS == {"nodejs", "typescript", "deno", "bash", "cmd", "go", "rust",
            "python", "c", "cpp", "java"}

\* the runtime tags of the job messages in a run; sh is what the bash tool
\* passes for language sh
RunnerRuntimes == {"nodejs", "go", "rust", "c", "java", "sh"}

Compiled == {"go", "rust", "c", "cpp"}

Slots == {"comp", "main"}

\* a child process: `killed` is ChildProcess.killed, `termed` a SIGTERM that
\* was delivered, `stubborn` a program that ignores SIGTERM
NoProc == [state |-> "none", code |-> Null, killed |-> FALSE,
           stubborn |-> FALSE, termed |-> FALSE]

spawn(stubborn) == [state |-> "running", code |-> Null, killed |-> FALSE,
                    stubborn |-> stubborn, termed |-> FALSE]

\* ChildProcess.kill(signal): a running process is sent the signal and
\* `killed` is set because the signal was sent; SIGKILL ends the process
kill(c, signal) ==
  IF c.state # "running" THEN c
  ELSE IF signal = "SIGKILL"
    THEN [c EXCEPT !.killed = TRUE, !.state = "exited"]
    ELSE [c EXCEPT !.killed = TRUE, !.termed = TRUE]

exited(c, code) == [c EXCEPT !.state = "exited", !.code = code]

NoResult == [source |-> "none", success |-> FALSE]

\* the closure of one executeInProcess call.  comp is the compile child
\* (execChild of 306, compileChild of 451), main the child of the generic
\* path (child), the run child of rust/c/cpp (runChild) or the java child
\* (execChild of 481); compKilled is execKilled of 294, mainKilled is killed,
\* runKilled or execKilled of 476; the timers are the timeoutHandle of each
\* and the 5 s timer each one arms
NewInv(runtime) ==
  [runtime |-> runtime, comp |-> NoProc, main |-> NoProc,
   compKilled |-> FALSE, mainKilled |-> FALSE,
   compTimer |-> "none", mainTimer |-> "none",
   compSigkill |-> "none", mainSigkill |-> "none",
   result |-> NoResult, inner |-> NoResult]

\* resolve(...) of the promise of executeInProcess: the first call settles it
resolve(v, source, success) ==
  IF v.result.source = "none"
    THEN [v EXCEPT !.result = [source |-> source, success |-> success]]
    ELSE v

\* compileResolve(...) of the promise made inside the java branch (447)
compileResolve(v, source, success) ==
  IF v.inner.source = "none"
    THEN [v EXCEPT !.inner = [source |-> source, success |-> success]]
    ELSE v

\* cleanup (246-250): sigkillTimer is the 5 s timer of the generic path; the
\* other branches do not store theirs
cleanup(v) ==
  IF v.runtime \notin Compiled \cup {"java"} /\ v.mainSigkill = "armed"
    THEN [v EXCEPT !.mainSigkill = "cleared"]
    ELSE v

\* the synchronous part of executeInProcess (252-668).  go, rust, c and cpp
\* spawn the compiler and then fall through to `child.stdout?.on` (620) with
\* child undefined: the TypeError lands in the outer catch (662-667), which
\* calls cleanup and resolves with the error.
executeInProcess(runtime, stubborn) ==
  LET v == NewInv(runtime)
  IN IF runtime \notin CONFIGS THEN resolve(v, "unsupported", FALSE)
     ELSE IF runtime \in Compiled
       THEN resolve(cleanup([v EXCEPT !.comp = spawn(stubborn),
                                     !.compTimer = "armed"]),
                    "exception", FALSE)
     ELSE IF runtime = "java" THEN [v EXCEPT !.comp = spawn(stubborn)]
     ELSE [v EXCEPT !.main = spawn(stubborn), !.mainTimer = "armed"]

\* 'close' of the compile child with exit code `code` (356-426, 463-541);
\* stubborn is the program it may spawn
compClose(v, code, stubborn) ==
  LET v1 == [v EXCEPT !.comp = exited(@, code)]
  IN IF v.runtime = "java"
       THEN IF code # 0 THEN compileResolve(v1, "compile", FALSE)
            ELSE [v1 EXCEPT !.main = spawn(stubborn), !.mainTimer = "armed"]
     ELSE IF v.compKilled THEN cleanup(v1)
     ELSE LET v2 == cleanup([v1 EXCEPT !.compKilled = TRUE,
                                       !.compTimer = "cleared"])
          IN IF code = 0 /\ v.runtime \in {"rust", "c", "cpp"}
               THEN [v2 EXCEPT !.main = spawn(stubborn), !.mainTimer = "armed"]
               ELSE resolve(v2, "compile", code = 0)

\* 'close' of the child, the run child or the java child (652-661, 399-408,
\* 531-540)
mainClose(v, code) ==
  LET v1 == [v EXCEPT !.main = exited(@, code)]
  IN IF v.mainKilled THEN cleanup(v1)
     ELSE LET v2 == cleanup([v1 EXCEPT !.mainKilled = TRUE,
                                       !.mainTimer = "cleared"])
          IN IF v.runtime = "java" THEN compileResolve(v2, "run", code = 0)
             ELSE IF v.runtime \in Compiled THEN resolve(v2, "run", code = 0)
             ELSE resolve(v2, "child", code = 0)

onClose(v, slot, code, stubborn) ==
  IF slot = "comp" THEN compClose(v, code, stubborn) ELSE mainClose(v, code)

\* the callback of timeoutHandle (582-596, 312-326, 369-383, 487-501) on a
\* platform other than win32
timeoutHandle(v, slot) ==
  IF slot = "comp"
    THEN IF v.compKilled THEN [v EXCEPT !.compTimer = "fired"]
         ELSE [v EXCEPT !.compTimer = "fired", !.compKilled = TRUE,
                        !.comp = kill(@, "SIGTERM"), !.compSigkill = "armed"]
    ELSE IF v.mainKilled THEN [v EXCEPT !.mainTimer = "fired"]
         ELSE [v EXCEPT !.mainTimer = "fired", !.mainKilled = TRUE,
                        !.main = kill(@, "SIGTERM"), !.mainSigkill = "armed"]

\* the callback armed for SIGTERM_TIMEOUT:
\* if (child && !child.killed) child.kill('SIGKILL')
sigkillTimer(v, slot) ==
  IF slot = "comp"
    THEN [v EXCEPT !.compSigkill = "fired",
                   !.comp = IF ~@.killed THEN kill(@, "SIGKILL") ELSE @]
    ELSE [v EXCEPT !.mainSigkill = "fired",
                   !.main = IF ~@.killed THEN kill(@, "SIGKILL") ELSE @]

ProcOf(v, slot) == IF slot = "comp" THEN v.comp ELSE v.main

Posted(r, j) == \E k \in 1..Len(r.posted) : r.posted[k].job = j

\* the message handler after `await executeInProcess` (678-694): posts the
\* terminal message and clears currentJobId
deliver(r, j) ==
  IF r.inv[j].result.source # "none" /\ ~Posted(r, j)
    THEN [r EXCEPT !.posted = Append(@, [job |-> j,
                                         source |-> r.inv[j].result.source,
                                         success |-> r.inv[j].result.success]),
                   !.jobId = 0]
    ELSE r

execFrame == <<poolVars, tasks, taskCounter, storeAux, requests, now,
               runnerStore, sup>>

\* parentPort.on('message') (674-678) for a job with the given runtime
Receive(runtime, stubborn) ==
  /\ runner.jobId = 0
  /\ Len(runner.inv) < MaxRunnerJobs
  /\ LET j == Len(runner.inv) + 1
     IN runner' = deliver([runner EXCEPT
                             !.jobId = j,
                             !.inv = Append(@, executeInProcess(runtime,
                                                                stubborn))], j)
  /\ UNCHANGED execFrame

\* a child of job j exits by itself with exit code `code`
Close(j, slot, code, stubborn) ==
  /\ j \in DOMAIN runner.inv
  /\ ProcOf(runner.inv[j], slot).state = "running"
  /\ runner' = deliver([runner EXCEPT
                          !.inv[j] = onClose(@, slot, code, stubborn)], j)
  /\ UNCHANGED execFrame

\* the deadline of a child of job j expires
TimeoutHandle(j, slot) ==
  /\ j \in DOMAIN runner.inv
  /\ (IF slot = "comp" THEN runner.inv[j].compTimer
      ELSE runner.inv[j].mainTimer) = "armed"
  /\ runner' = [runner EXCEPT !.inv[j] = timeoutHandle(@, slot)]
  /\ UNCHANGED execFrame

\* a child of job j that honours SIGTERM ends: 'close' with code null
Terminated(j, slot, stubborn) ==
  /\ j \in DOMAIN runner.inv
  /\ ProcOf(runner.inv[j], slot).state = "running"
  /\ ProcOf(runner.inv[j], slot).termed
  /\ ~ProcOf(runner.inv[j], slot).stubborn
  /\ runner' = deliver([runner EXCEPT
                          !.inv[j] = onClose(@, slot, Null, stubborn)], j)
  /\ UNCHANGED execFrame

\* SIGTERM_TIMEOUT after the deadline of a child of job j
SigkillTimer(j, slot) ==
  /\ j \in DOMAIN runner.inv
  /\ (IF slot = "comp" THEN runner.inv[j].compSigkill
      ELSE runner.inv[j].mainSigkill) = "armed"
  /\ runner' = [runner EXCEPT !.inv[j] = sigkillTimer(@, slot)]
  /\ UNCHANGED execFrame

NextExec ==
  \/ \E runtime \in RunnerRuntimes, stubborn \in BOOLEAN :
       Receive(runtime, stubborn)
  \/ \E j \in 1..MaxRunnerJobs, slot \in Slots, code \in {0, 1},
        stubborn \in BOOLEAN : Close(j, slot, code, stubborn)
  \/ \E j \in 1..MaxRunnerJobs, slot \in Slots : TimeoutHandle(j, slot)
  \/ \E j \in 1..MaxRunnerJobs, slot \in Slots, stubborn \in BOOLEAN :
       Terminated(j, slot, stubborn)
  \/ \E j \in 1..MaxRunnerJobs, slot \in Slots : SigkillTimer(j, slot)

ExecSpec == Init /\ [][NextExec]_vars

\* ------------------------------------- one worker thread with its output
\* The generic path of executeInProcess (part_002:575-661) streams the
\* child's output: 'data' handlers fill the buffers of the invocation and
\* arm one 200 ms timer, whose callback posts the buffers under the
\* module-level currentJobId.  Nothing clears the timer when the child
\* closes.

\* the runtimes that reach the 'data' handlers of lines 620-636
Streaming == CONFIGS \ (Compiled \cup {"java"})

\* child.stdout / child.stderr 'data' (620-636) with scheduleFlush (616-618)
onData(o, streamType) ==
  [o EXCEPT !.buffered = @ \cup {streamType},
            !.outputTimer = IF @ = "none" THEN "armed" ELSE @]

\* the messages flushOutput posts for the buffers of invocation j while
\* currentJobId is `current`: stdout first, then stderr (604-611)
flushed(o, current, j) ==
  (IF "stdout" \in o.buffered
     THEN <<[jobId |-> current, streamType |-> "stdout", from |-> j]>>
     ELSE << >>)
  \o (IF "stderr" \in o.buffered
        THEN <<[jobId |-> current, streamType |-> "stderr", from |-> j]>>
        ELSE << >>)

\* flushOutput (602-614) as the timer callback of invocation j
flushOutput(r, j) ==
  IF r.jobId # 0
    THEN [r EXCEPT !.outputs = @ \o flushed(r.out[j], r.jobId, j),
                   !.out[j] = NoOutput]
    ELSE [r EXCEPT !.out[j].outputTimer = "none"]

\* the child of job j writes to one of its pipes
ChildData(j, streamType) ==
  /\ j \in DOMAIN runner.inv
  /\ runner.inv[j].runtime \in Streaming
  /\ runner.inv[j].main.state = "running"
  /\ Len(runner.outputs) + Cardinality(runner.out[j].buffered) < MaxFlushes
  /\ runner' = [runner EXCEPT !.out[j] = onData(@, streamType)]
  /\ UNCHANGED execFrame

\* 200 ms after the first buffered chunk of job j
FlushOutput(j) ==
  /\ j \in DOMAIN runner.inv
  /\ runner.out[j].outputTimer = "armed"
  /\ runner' = flushOutput(runner, j)
  /\ UNCHANGED execFrame

NextFlush ==
  \/ \E runtime \in {"nodejs", "python", "sh"} : Receive(runtime, FALSE)
  \/ \E j \in 1..MaxRunnerJobs, code \in {0, 1} : Close(j, "main", code, FALSE)
  \/ \E j \in 1..MaxRunnerJobs : TimeoutHandle(j, "main")
  \/ \E j \in 1..MaxRunnerJobs : Terminated(j, "main", FALSE)
  \/ \E j \in 1..MaxRunnerJobs, streamType \in Streams :
       ChildData(j, streamType)
  \/ \E j \in 1..MaxRunnerJobs : FlushOutput(j)

FlushSpec == Init /\ [][NextFlush]_vars

\* ------------------------------------------------------------ properties

Rejections == {"rej_shutdown", "rej_noworkers", "rej_overflow", "rej_send",
               "rej_worker", "rej_health", "rej_poolshutdown"}

C1_Settled ==
  \A j \in DOMAIN jobs :
    /\ j \notin activeJobs => jobs[j].settled # "none"
    /\ jobs[j].settled \in {"none", "result", "handle"} \cup Rejections

C1_Once ==
  \A j \in DOMAIN jobs :
    jobs[j].settled # "none" => jobs'[j].settled = jobs[j].settled

C2_PromotedFinalised ==
  \A j \in 1..MaxJobs : (j \in backgroundJobs) ~> (j \notin backgroundJobs)

\* C3: once a task is completed or failed, no step changes its record.
C3_TerminalIsFinal ==
  [][\A t \in DOMAIN tasks \cap DOMAIN tasks' :
       Terminal(tasks[t].status) => tasks'[t] = tasks[t]]_vars

StatusDAG == {<<"pending", "running">>, <<"running", "completed">>,
              <<"running", "failed">>}

\* C4: a task's status changes only along pending -> running -> completed
\* or pending -> running -> failed.
C4_StatusDAG ==
  [][\A t \in DOMAIN tasks \cap DOMAIN tasks' :
       \/ tasks'[t].status = tasks[t].status
       \/ <<tasks[t].status, tasks'[t].status>> \in StatusDAG]_vars

\* C5: every accepted job has had its foreground timer armed from the
\* moment it was accepted, on a slot or in the queue.
C5_TimerArmedOnAccept ==
  \A j \in activeJobs : jobs[j].timer # "none"

\* the child of job j is executing on a slot of the pool
OnSlot(j) ==
  /\ jobs[j].worker \in LiveIds(workers)
  /\ threads[jobs[j].worker].job = j
  /\ threads[jobs[j].worker].stage \in {"start", "java", "killed"}

\* a step in which healthCheck() removed a job from activeJobs
HealthCheckRan ==
  \E j \in activeJobs :
    /\ j <= oldUpTo
    /\ j \notin activeJobs'
    /\ jobs[j].settled = "none"
    /\ jobs'[j].settled = "rej_health"

\* C6: when the health check runs, every job older than maxWorkerAge whose
\* child is executing on a slot (foreground, backgrounded or promoted) loses
\* its slot and has its task failed with the health-check reason.
C6_HealthCheckKillsOld ==
  [][HealthCheckRan =>
       \A j \in DOMAIN jobs :
         (j <= oldUpTo /\ OnSlot(j)) =>
           /\ jobs[j].worker \notin LiveIds(workers')
           /\ jobs[j].taskId \in DOMAIN tasks =>
                tasks'[jobs[j].taskId].result =
                  "Worker timeout - killed by health check"]_vars

\* C7: the queue never holds more than MAX_QUEUE jobs.
C7_QueueWithinCap == Len(queue) <= MAX_QUEUE

\* C8: an execute call made while the pool is shutting down or has no
\* workers is rejected in the same step and changes neither activeJobs,
\* backgroundJobs, the queue, any slot, any worker thread nor any other job;
\* no timer is armed for it.
C8_RejectedExecuteFrame ==
  [][(jobCounter' = jobCounter + 1 /\ (shuttingDown \/ Len(workers) = 0)) =>
       /\ jobs'[jobCounter'].settled \in {"rej_shutdown", "rej_noworkers"}
       /\ jobs'[jobCounter'].timer = "none"
       /\ jobs'[jobCounter'].worker = 0
       /\ \A j \in DOMAIN jobs : jobs'[j] = jobs[j]
       /\ UNCHANGED <<activeJobs, backgroundJobs, queue, workers, threads>>
    ]_vars

\* one call rejected for each of the two reasons
C8_Witness ==
  /\ \E j \in DOMAIN jobs : jobs[j].settled = "rej_shutdown"
  /\ \E j \in DOMAIN jobs : jobs[j].settled = "rej_noworkers"

\* C9: after task-store shutdown and pool shutdown every task that was
\* pending or running when shutdown began is failed with reason "Process
\* shutting down".
C9_ShutdownReason ==
  (shuttingDown /\ storeDown) =>
    \A t \in inFlight \cap DOMAIN tasks :
      /\ tasks[t].status = "failed"
      /\ tasks[t].result = "Process shutting down"

\* C10: a worker never ends up with every child of its job exited and no
\* terminal message posted for the job.
C10_RunnerAlwaysReports ==
  \A w \in 1..MaxWorkers : threads[w].stage # "lost"

\* rejections for structural reasons: the pool shutting down (at the call or
\* later), no workers, queue overflow, and a job that could not be posted
Structural == {"rej_shutdown", "rej_noworkers", "rej_overflow",
               "rej_poolshutdown", "rej_send"}

\* C11: the promise of execute is rejected only for structural reasons; a
\* worker 'error' message and a health-check kill are job outcomes and are
\* never delivered as a rejection.
C11_StructuralRejectionsOnly ==
  \A j \in DOMAIN jobs :
    jobs[j].settled \in Rejections => jobs[j].settled \in Structural

\* the chunks of task id in a sequence of [task, chunk] records
RECURSIVE OfTask(_, _)
OfTask(seq, id) ==
  IF seq = << >> THEN << >>
  ELSE IF Head(seq).task = id THEN <<Head(seq).chunk>> \o OfTask(Tail(seq), id)
  ELSE OfTask(Tail(seq), id)

\* C12: the d fields of a task's outputLog never add up to more than
\* maxOutputSize, also when one chunk alone is larger than the cap.
C12_OutputWithinCap ==
  \A id \in DOMAIN tasks : SumLen(tasks[id].outputLog) <= MaxOutputSize

\* the chunks accepted for task id that no getAndClearOutput has returned yet
Undelivered(id) ==
  LET a == OfTask(appended, id)
  IN SubSeq(a, Len(OfTask(delivered, id)) + 1, Len(a))

\* C13: for a task in the store whose output stayed under the cap,
\* getAndClearOutput returns the chunks appended since the previous call, in
\* arrival order ([x1, x2] after appendOutput(x1); appendOutput(x2)), and
\* the empty list when nothing was appended in between.
C13_ReadReturnsAppendedInOrder ==
  [][\A id \in 1..MaxStoreTasks :
       (GetAndClearOutput(id) /\ id \in DOMAIN tasks /\ id \notin truncated) =>
         lastRead' = Undelivered(id)]_vars

\* one read returned two chunks in arrival order and the next returned none
C13_Witness ==
  /\ Len(delivered) = 2
  /\ delivered[1].chunk.t < delivered[2].chunk.t
  /\ delivered[1].task = delivered[2].task
  /\ delivered[1].chunk.d # delivered[2].chunk.d
  /\ lastRead = << >>
  /\ truncated = {}

\* C14: for a task in the store whose output stayed under the cap, the
\* chunks returned so far followed by the chunks still in the buffer are
\* exactly the chunks appended, each once: none is lost, none is returned
\* twice.
C14_NoChunkLostOrRepeated ==
  \A id \in DOMAIN tasks :
    id \notin truncated =>
      OfTask(delivered, id) \o tasks[id].outputLog = OfTask(appended, id)

\* append, read, append, read: two reads returned one chunk each
C14_Witness ==
  /\ Len(delivered) = 2
  /\ Len(lastRead) = 1
  /\ lastRead[1] = delivered[2].chunk
  /\ delivered[1].task = delivered[2].task
  /\ delivered[1].task \in DOMAIN tasks
  /\ truncated = {}

\* C15: the ids createTask returned (each is bound to the job made in the
\* same call) are positive and strictly increasing in call order, so no id
\* is returned twice, deleted tasks included.
C15_TaskIdsIncrease ==
  \A i, j \in DOMAIN jobs :
    /\ jobs[i].taskId >= 0
    /\ (i < j /\ jobs[i].taskId # 0 /\ jobs[j].taskId # 0) =>
         jobs[i].taskId < jobs[j].taskId

\* a second task was created while the first one is no longer in the store
C15_Witness ==
  /\ jobCounter >= 2
  /\ jobs[1].taskId = 1
  /\ jobs[2].taskId = 2
  /\ 1 \notin DOMAIN tasks
  /\ 2 \in DOMAIN tasks

C17_SyncResultDeletesTask ==
  \A j \in DOMAIN jobs :
    jobs[j].response.kind = "sync" =>
      /\ jobs[j].taskId \notin DOMAIN tasks
      /\ jobs[j].response.ref = 0

\* a foreground call answered with the synchronous result of its worker
C17_Witness ==
  \E j \in DOMAIN jobs :
    /\ SyncResult(j)
    /\ jobs[j].response.kind = "sync"
    /\ jobs[j].timer = "cleared"

\* C18: the runtime tag passed to the pool is, for the execute tool, nodejs
\* when language is typescript, auto or absent and the given tag otherwise;
\* for the bash tool it is bash (cmd on Windows) whatever language was given.
C18_RuntimeNormalised ==
  \A k \in 1..Len(requests) :
    LET r == requests[k]
    IN IF r.tool = "bash"
         THEN r.runtime = IF r.platform = "win32" THEN "cmd" ELSE "bash"
         ELSE r.runtime = IF r.language \in {"typescript", "auto", "undefined"}
                            THEN "nodejs" ELSE r.language

\* C19: for every task that is completed and has been started,
\* result.executionTimeMs equals completedAt - startedAt; ticks are longer
\* than the tolerance, so the two agree only when they are equal.
C19_ExecutionTimeIsTaskTime ==
  \A t \in DOMAIN tasks :
    (tasks[t].status = "completed" /\ tasks[t].startedAt # Null) =>
      tasks[t].result.executionTimeMs =
        tasks[t].completedAt - tasks[t].startedAt

\* C20: a job's temporary directory is on disk only while the job is still
\* running on a live worker; once the job completed, failed, was killed on
\* deadline expiry or had its runner torn down, the directory is gone.
C20_NoTempDirLeft ==
  \A j \in tempDirs : OnSlot(j)

\* C21: while a task is pending no output chunk is recorded on it and it
\* makes no terminal transition: startTask comes before every appendOutput
\* and before completeTask or failTask of the task.
C21_StartBeforeOutputAndEnd ==
  [][\A t \in DOMAIN tasks \cap DOMAIN tasks' :
       tasks[t].status = "pending" =>
         /\ tasks'[t].outputLog = tasks[t].outputLog
         /\ ~Terminal(tasks'[t].status)]_vars

\* C22: an appendOutput call for a task that is completed or failed, or for
\* an id that is not in the store, changes nothing in the store.
C22_LateOutputDropped ==
  [][\A id \in 1..MaxStoreTasks, type \in Streams, data \in Data :
       (/\ AppendOutput(id, type, data)
        /\ id \in DOMAIN tasks => Terminal(tasks[id].status)) =>
         tasks' = tasks]_vars

\* the first chunk was accepted, the task then ended, and the second call
\* left the log as it was
C22_Witness ==
  /\ chunkCounter = 2
  /\ Len(appended) = 1
  /\ appended[1].chunk.t = 1
  /\ 1 \in DOMAIN tasks
  /\ Terminal(tasks[1].status)
  /\ tasks[1].outputLog = <<appended[1].chunk>>

\* the step is the foreground-timer callback of job j
Promoted(j) == jobs[j].timer = "armed" /\ jobs'[j].timer = "fired"

\* what a promotion of job j changes and what it leaves alone
PromotionFrame(j) ==
  /\ activeJobs' = activeJobs \ {j}
  /\ backgroundJobs' = backgroundJobs \cup {j}
  /\ jobs'[j].settled = IF jobs[j].settled = "none" THEN "handle"
                         ELSE jobs[j].settled
  /\ jobs'[j].worker = jobs[j].worker
  /\ \A k \in DOMAIN jobs \ {j} : jobs'[k] = jobs[k]
  /\ UNCHANGED <<workers, threads, queue>>
  /\ DOMAIN tasks' = DOMAIN tasks
  /\ \A t \in DOMAIN tasks :
       IF t = jobs[j].taskId
         THEN /\ tasks'[t].status = "running"
              /\ tasks'[t].outputLog = tasks[t].outputLog
              /\ tasks'[t].result = tasks[t].result
         ELSE tasks'[t] = tasks[t]

\* an output message and the terminal message of a promoted job whose task is
\* running are recorded on the task
RecordedAfterPromotion(w) ==
  LET j == threads[w].job
      tid == jobs[j].taskId
  IN (/\ j \in backgroundJobs
      /\ tid \in DOMAIN tasks
      /\ tasks[tid].status = "running") =>
       /\ (\E streamType \in Streams : WorkerOutput(w, streamType, "a")) =>
            /\ tasks'[tid].outputLog # << >>
            /\ tasks'[tid].outputLog[Len(tasks'[tid].outputLog)].t = chunkCounter'
            /\ tasks'[tid].status = "running"
       /\ (\E type \in MsgTypes, outcome \in Outcomes :
              WorkerMessage(w, type, outcome)) =>
            /\ Terminal(tasks'[tid].status)
            /\ IF tasks'[tid].status = "completed"
                 THEN tasks'[tid].result.outcome \in Outcomes
                 ELSE tasks'[tid].result = "Worker error"
            /\ tasks'[tid].outputLog = tasks[tid].outputLog

\* C23: the foreground-timer callback moves the job from activeJobs to
\* backgroundJobs, marks its task running and gives the caller the handle,
\* and changes nothing else: the slot stays unavailable, the worker thread
\* (the child) goes on, the queue and every other job and task are as
\* before; output and the terminal message that arrive after the promotion
\* are recorded on the task.
C23_PromotionFrame ==
  [][/\ \A j \in DOMAIN jobs : Promoted(j) => PromotionFrame(j)
     /\ \A w \in LiveIds(workers) :
          threads[w].job # 0 => RecordedAfterPromotion(w)]_vars

\* a promoted job whose output and result were recorded, with a second job
\* accepted meanwhile
C23_Witness ==
  \E j \in DOMAIN jobs :
    /\ jobs[j].timer = "fired"
    /\ jobs[j].settled = "handle"
    /\ jobs[j].response.kind = "persisted"
    /\ jobs[j].taskId \in DOMAIN tasks
    /\ tasks[jobs[j].taskId].status = "completed"
    /\ tasks[jobs[j].taskId].startedAt # Null
    /\ tasks[jobs[j].taskId].outputLog # << >>
    /\ jobCounter = 2

\* C24: when the worker of a slot raises 'error' or 'exit' while a job is
\* assigned to it, the slot is removed, the job is cancelled (out of
\* activeJobs and backgroundJobs, timer cleared, caller settled, task
\* completed or failed) and, unless the pool is shutting down, a new slot
\* takes its place.
C24_CrashCancelsJob ==
  [][\A w \in LiveIds(workers) :
       LET j == threads[w].job
       IN (j # 0 /\ \E ok \in BOOLEAN : WorkerCrash(w, ok)) =>
            /\ w \notin LiveIds(workers')
            /\ j \notin activeJobs' \cup backgroundJobs'
            /\ jobs'[j].timer # "armed"
            /\ jobs'[j].settled # "none"
            /\ jobs[j].taskId \in DOMAIN tasks =>
                 Terminal(tasks'[jobs[j].taskId].status)
            /\ (~shuttingDown /\ workerCounter < MaxWorkers
                  /\ WorkerCrash(w, TRUE)) =>
                 Len(workers') = Len(workers)]_vars

\* the step is not one in which `new Worker` threw inside removeWorker: it
\* is a worker error/exit or a health check with every `new Worker`
\* returning, or another operation of the pool
CreationSucceeds ==
  \/ \E w \in LiveIds(workers) : WorkerCrash(w, TRUE)
  \/ HealthCheck(TRUE)
  \/ ~ \/ \E w \in LiveIds(workers) : WorkerCrash(w, FALSE)
       \/ HealthCheck(FALSE)

\* C25: the pool never holds more than poolSize slots, and while it is not
\* shutting down and every `new Worker` succeeds (the run has Worker objects
\* left to replace every slot) a pool of poolSize slots has poolSize slots
\* after every step: worker error/exit, health-check kill, message handling
\* and execute.
C25_PoolSizeKept ==
  /\ [](Len(workers) <= PoolSize)
  /\ [][(/\ ~shuttingDown'
          /\ Len(workers) = PoolSize
          /\ workerCounter + Len(workers) <= MaxWorkers
          /\ CreationSucceeds) =>
            Len(workers') = PoolSize]_vars

\* a crashed worker was replaced: the pool is full again, with a worker that
\* was not there at construction
C25_Witness ==
  /\ ~shuttingDown
  /\ workerCounter > PoolSize
  /\ Len(workers) = PoolSize
  /\ \E i \in 1..Len(workers) : workers[i].id > PoolSize
  /\ threads[1].stage = "dead"

\* C26: while a worker thread serves a job, no child process of an earlier
\* job is still running on it: the slot gets its next job only after the
\* terminal message of the previous one and after all children of the
\* previous one have exited.
C26_OneJobPerSlot ==
  runner.jobId # 0 =>
    \A j \in DOMAIN runner.inv, slot \in Slots :
      ProcOf(runner.inv[j], slot).state = "running" => j = runner.jobId

\* C28: once the SIGTERM_TIMEOUT timer armed at the deadline has run, the
\* child is not running: it ended on the graceful signal or it was sent
\* SIGKILL, also when it ignores SIGTERM.
C28_StubbornChildKilled ==
  \A j \in DOMAIN runner.inv :
    /\ runner.inv[j].compSigkill = "fired" =>
         runner.inv[j].comp.state # "running"
    /\ runner.inv[j].mainSigkill = "fired" =>
         runner.inv[j].main.state # "running"

\* C29: for rust, c, cpp and java the run step is started iff the compile
\* step exited 0, and the result posted for the job is the compile step's
\* with success false when the compile step failed, and otherwise the run
\* step's with success iff the run step exited 0.
C29_CompileThenRun ==
  /\ \A j \in DOMAIN runner.inv :
       runner.inv[j].runtime \in {"rust", "c", "cpp", "java"} =>
         (runner.inv[j].main.state # "none" <=>
            (runner.inv[j].comp.state = "exited" /\ runner.inv[j].comp.code = 0))
  /\ \A k \in 1..Len(runner.posted) :
       LET m == runner.posted[k]
           v == runner.inv[m.job]
       IN v.runtime \in {"rust", "c", "cpp", "java"} =>
            /\ v.comp.state = "exited"
            /\ IF v.comp.code # 0
                 THEN m.source = "compile" /\ ~m.success
                 ELSE /\ m.source = "run"
                      /\ v.main.state = "exited"
                      /\ m.success = (v.main.code = 0)

\* C27: when WorkerPool.shutdown has run, no job timer is armed, the caller
\* of every queued job has been rejected, the task of every job that was in
\* activeJobs or backgroundJobs (foreground as well as promoted) is failed,
\* and activeJobs, backgroundJobs, the queue and the slots are empty.
C27_ShutdownClearsAll ==
  [][(~shuttingDown /\ shuttingDown') =>
       /\ \A j \in DOMAIN jobs : jobs'[j].timer # "armed"
       /\ \A k \in 1..Len(queue) : jobs'[queue[k]].settled \in Rejections
       /\ \A j \in activeJobs \cup backgroundJobs :
            jobs[j].taskId \in DOMAIN tasks =>
              tasks'[jobs[j].taskId].status = "failed"
       /\ activeJobs' = {}
       /\ backgroundJobs' = {}
       /\ queue' = << >>
       /\ workers' = << >>]_vars

\* C30: the sweep never removes or changes a task that is pending or
\* running, however old the task is and however far the store is above
\* maxTasks.
C30_SweepKeepsLiveTasks ==
  [][Cleanup =>
       \A id \in DOMAIN tasks :
         ~Terminal(tasks[id].status) =>
           id \in DOMAIN tasks' /\ tasks'[id] = tasks[id]]_vars

\* the sweep evicted a finished task while the first task, still pending
\* after more than maxAge, and another live task stay: the store remains
\* above maxTasks
C30_Witness ==
  /\ now > MaxAge
  /\ 1 \in DOMAIN tasks
  /\ tasks[1].status = "pending"
  /\ \E id \in 2..taskCounter : id \notin DOMAIN tasks
  /\ Cardinality(DOMAIN tasks) > MAX_TASKS
  /\ \A id \in DOMAIN tasks : ~Terminal(tasks[id].status)

\* the tasks the age pass of a sweep leaves in the store: the ones that are
\* not terminal, or ended no more than maxAge ago
Unexpired ==
  {id \in DOMAIN tasks :
     ~(Terminal(tasks[id].status) /\ now - tasks[id].completedAt > MaxAge)}

\* C31: a sweep that finds more than maxTasks unexpired tasks removes
\* terminal tasks only, oldest completedAt first, and exactly as many as it
\* takes to reach maxTasks (or all the terminal ones when that is not
\* enough); a sweep that finds at most maxTasks removes none of them.  With
\* maxTasks + 1 unexpired tasks, all terminal, exactly the one with the
\* oldest completedAt goes.
C31_OverflowEvictsOldest ==
  [][Cleanup =>
       LET Term == {id \in Unexpired : Terminal(tasks[id].status)}
           Gone == Unexpired \ DOMAIN tasks'
           over == Cardinality(Unexpired) - MAX_TASKS
       IN /\ DOMAIN tasks' \subseteq Unexpired
          /\ \A id \in DOMAIN tasks' : tasks'[id] = tasks[id]
          /\ Gone \subseteq Term
          /\ \A r \in Gone, k \in Term \ Gone :
               tasks[r].completedAt <= tasks[k].completedAt
          /\ Cardinality(Gone) =
               IF over <= 0 THEN 0
               ELSE IF over <= Cardinality(Term) THEN over
               ELSE Cardinality(Term)
          /\ (over = 1 /\ Term = Unexpired) =>
               \E r \in Unexpired :
                 /\ Gone = {r}
                 /\ \A k \in Unexpired :
                      tasks[r].completedAt <= tasks[k].completedAt]_vars

\* the sweep took the second task before the clock passed maxAge, so through
\* the overflow pass, and the first task, completed at tick 1, is left
C31_Witness ==
  /\ taskCounter = 2
  /\ now = 1
  /\ DOMAIN tasks = {1}
  /\ tasks[1].status = "completed"
  /\ tasks[1].completedAt = 1

\* C32: every 'output' message the worker thread posts carries the id of the
\* job whose child wrote the data; the pool appends the chunk to the task
\* of the job the message names (worker-pool.js:94-99).
C32_OutputUnderOwnJob ==
  \A k \in 1..Len(runner.outputs) :
    runner.outputs[k].jobId = runner.outputs[k].from

\* the jobs of activeJobs and backgroundJobs whose job.worker is the worker
\* of the slot
AssignedTo(wid) ==
  {j \in activeJobs \cup backgroundJobs : jobs[j].worker = wid}

\* a slot is unavailable iff exactly one job of the job sets is assigned to it
SlotBusyIffOneJob ==
  \A i \in 1..Len(workers) :
    ~workers[i].isAvailable <=> Cardinality(AssignedTo(workers[i].id)) = 1

\* when the pool has handled the terminal message of the job on a slot, the
\* slot is available or has been given to the next queued job
SlotFreedOnTerminal ==
  \A w \in LiveIds(workers), type \in MsgTypes, outcome \in Outcomes :
    WorkerMessage(w, type, outcome) =>
      \/ workers'[IndexOf(workers', w)].isAvailable
      \/ threads'[w].job \notin {0, threads[w].job}

\* C33: between pool operations a slot is unavailable iff exactly one job
\* in activeJobs or backgroundJobs is assigned to it, and a slot whose worker
\* posted the terminal message of its job becomes available again, also
\* when the health check had removed the job from activeJobs.
C33_SlotBusyIffOneJob ==
  /\ []SlotBusyIffOneJob
  /\ [][SlotFreedOnTerminal]_vars

\* job j is given to a worker in this step: job.worker is set (190, 221)
Dispatched(j) == jobs[j].worker = 0 /\ jobs'[j].worker # 0

\* C34: every job in the queue is in activeJobs, and a job whose caller has
\* been settled is never dispatched to a worker.
C34_QueuedJobsAreActive ==
  /\ [](\A k \in 1..Len(queue) : queue[k] \in activeJobs)
  /\ [][\A j \in DOMAIN jobs :
          Dispatched(j) => jobs[j].settled = "none"]_vars

\* C35: between pool operations, a non-empty queue means that no slot is
\* available.
C35_WorkConserving ==
  Len(queue) > 0 => \A i \in 1..Len(workers) : ~workers[i].isAvailable

\* the jobs waiting in the queue ahead of job j: the ones in front of it
\* when j is queued, all of them when j is arriving through execute
Ahead(j) ==
  IF InQueue(queue, j)
    THEN {queue[k] : k \in 1..(CHOOSE i \in 1..Len(queue) : queue[i] = j) - 1}
    ELSE {queue[k] : k \in 1..Len(queue)}

\* C36: a job is given to a worker only when no job that was waiting ahead
\* of it is left in the queue: queued jobs leave in the order they were
\* enqueued, and a job arriving through execute does not overtake them.
C36_FifoDispatch ==
  [][\A j \in DOMAIN jobs' :
       (jobs'[j].worker # 0 /\ (j \in DOMAIN jobs => jobs[j].worker = 0)) =>
         \A k \in Ahead(j) : ~InQueue(queue', k)]_vars

\* the pool rejected job j, which the facade submitted with a task, and the
\* handler is past its catch block (70-72) or its .catch (41)
RejectedAndAnswered(j) ==
  /\ jobs[j].taskId # 0
  /\ jobs[j].settled \in Rejections
  /\ jobs[j].response # NoResponse

\* C37: once the pool has rejected a job of the facade and the handler has
\* answered, the task created for the job is deleted or terminal.
C37_RejectedTaskNotLeftLive ==
  \A j \in DOMAIN jobs :
    RejectedAndAnswered(j) /\ jobs[j].taskId \in DOMAIN tasks =>
      Terminal(tasks[jobs[j].taskId].status)

\* task t becomes failed in this step
Fails(t) ==
  /\ t \in DOMAIN tasks /\ t \in DOMAIN tasks'
  /\ tasks[t].status # "failed"
  /\ tasks'[t].status = "failed"

\* C38: a task becomes failed only in the step of a worker 'error' message
\* for its job, of a health check or of a shutdown; every 'complete'
\* message sets the task of its job to completed, with result.success true
\* iff the message reports no error and exit code 0.
C38_CompleteMeansCompleted ==
  [][/\ \A t \in DOMAIN tasks :
          Fails(t) =>
            \/ \E w \in LiveIds(workers), outcome \in Outcomes :
                 /\ WorkerMessage(w, "error", outcome)
                 /\ jobs[threads[w].job].taskId = t
            \/ \E ok \in BOOLEAN : HealthCheck(ok)
            \/ PoolShutdown
            \/ StoreShutdown
     /\ \A w \in LiveIds(workers), outcome \in Outcomes :
          WorkerMessage(w, "complete", outcome) =>
            LET tid == jobs[threads[w].job].taskId
            IN tid \in DOMAIN tasks =>
                 /\ tasks'[tid].status = "completed"
                 /\ tasks'[tid].result.success = (outcome = "ok")]_vars

\* C39: in either transport the store that process_status reads is the one
\* the pool writes: when a promoted job leaves backgroundJobs (its terminal
\* message was handled, or the pool shut down), its task, unless it was
\* deleted, is terminal in the store of the facade.
C39_OneStoreInstance ==
  [][\A j \in backgroundJobs :
       (j \notin backgroundJobs' /\ jobs[j].taskId \in DOMAIN tasks') =>
         Terminal(tasks'[jobs[j].taskId].status)]_vars

\* C40: at most one runner process is alive, at most one restart is
\* pending, and at most MAX_RESTARTS restart timestamps lie inside the
\* window.
C40_OneRunnerOneRestart ==
  /\ Cardinality(Alive(sup)) <= 1
  /\ sup.restartTimers <= 1
  /\ Len(withinWindow(sup.restartTimestamps)) <= MAX_RESTARTS

====
